---- MODULE Spec2Model ----
(***************************************************************************)
(* Model of build.py: the three-stage documentation build                  *)
(* (run_schema_generator, run_phpdoc, copy_docs) and the nested            *)
(* if/else of __main__ that chains them and sets the exit status.          *)
(*                                                                         *)
(* The filesystem is abstracted to what copy_docs reads and writes:        *)
(*   fs.src    the 'docs' folder: absent, or a directory holding files     *)
(*             (relative path -> content, or "unreadable" for a file the   *)
(*             process may not read)                                       *)
(*   fs.dest   the destination folder: absent, a regular file, or a        *)
(*             directory holding files                                     *)
(*   fs.parent the directory chain above the destination: absent,          *)
(*             writable ("rw") or read-only ("ro")                         *)
(* fs0 keeps the destination and its parent as they were before the run.   *)
(* Faults of the filesystem calls are functions of that state, as they are *)
(* for the real calls; the outcome of an external process is an input.     *)
(***************************************************************************)
EXTENDS Integers, Sequences, FiniteSets, TLC

\* Bounds of the model.
MaxNames == 2
MaxCalls == 2

\* Relative paths of the files a folder can hold, and what a file can hold:
\* two contents tell a file that was overwritten from one that was kept.
Names == 1..MaxNames
Contents == {"v1", "v2"}

EmptyTree == [n \in {} |-> "v1"]

\* Every directory content over Names: relative path -> file content.
Trees == UNION {[D -> Contents] : D \in SUBSET Names}

\* The same for the source, where a file may be unreadable.
SrcTrees == UNION {[D -> Contents \cup {"unreadable"}] : D \in SUBSET Names}

\* The files of a source tree that cannot be copied.
Unreadable(t) == {n \in DOMAIN t : t[n] = "unreadable"}

SrcStates ==
    {[kind |-> "absent", tree |-> EmptyTree]}
    \cup {[kind |-> "dir", tree |-> t] : t \in SrcTrees}

DestStates ==
    {[kind |-> "absent", tree |-> EmptyTree],
     [kind |-> "file", tree |-> EmptyTree]}
    \cup {[kind |-> "dir", tree |-> t] : t \in Trees}

ParentStates == {"absent", "rw", "ro"}

\* A filesystem the program can meet: an existing destination has an
\* existing parent.
FsStates ==
    {f \in [src : SrcStates, dest : DestStates, parent : ParentStates] :
        f.dest.kind # "absent" => f.parent # "absent"}

VARIABLES pc, invoked, results, out, exitCode, fs, fs0, calls

vars == <<pc, invoked, results, out, exitCode, fs, fs0, calls>>

\* The pipeline of __main__, in the order of the nested ifs.
Stages == <<"run_schema_generator", "run_phpdoc", "copy_docs">>

----------------------------------------------------------------------------
\* Filesystem calls of copy_docs.  Each yields the filesystem it leaves and
\* the exception it raised ("none" when it returned).

\* os.makedirs(dest_folder, exist_ok=True)
makedirs(f) ==
    IF f.dest.kind = "dir" THEN [fs |-> f, exc |-> "none"]
    ELSE IF f.dest.kind = "file" THEN [fs |-> f, exc |-> "FileExistsError"]
    ELSE IF f.parent = "ro" THEN [fs |-> f, exc |-> "PermissionError"]
    ELSE [fs |-> [f EXCEPT !.parent = "rw",
                           !.dest = [kind |-> "dir", tree |-> EmptyTree]],
          exc |-> "none"]

\* os.path.exists(dest_folder)
exists(f) == f.dest.kind # "absent"

\* shutil.rmtree(dest_folder): the entries go first, the directory last;
\* removing the directory itself needs a writable parent.
rmtree(f) ==
    IF f.dest.kind = "absent" THEN [fs |-> f, exc |-> "FileNotFoundError"]
    ELSE IF f.dest.kind = "file" THEN [fs |-> f, exc |-> "NotADirectoryError"]
    ELSE IF f.parent = "ro"
         THEN [fs |-> [f EXCEPT !.dest = [kind |-> "dir", tree |-> EmptyTree]],
               exc |-> "PermissionError"]
    ELSE [fs |-> [f EXCEPT !.dest = [kind |-> "absent", tree |-> EmptyTree]],
          exc |-> "none"]

\* shutil.copytree(src_folder, dest_folder): scans the source, creates the
\* destination (which must not exist), copies every entry it can read and
\* raises shutil.Error at the end if some entry could not be copied.
copytree(f) ==
    IF f.src.kind = "absent" THEN [fs |-> f, exc |-> "FileNotFoundError"]
    ELSE IF f.dest.kind # "absent" THEN [fs |-> f, exc |-> "FileExistsError"]
    ELSE IF f.parent = "ro" THEN [fs |-> f, exc |-> "PermissionError"]
    ELSE LET copied == DOMAIN f.src.tree \ Unreadable(f.src.tree)
             g == [f EXCEPT !.parent = "rw",
                            !.dest = [kind |-> "dir",
                                      tree |-> [n \in copied |-> f.src.tree[n]]]]
         IN  [fs |-> g,
              exc |-> IF Unreadable(f.src.tree) = {} THEN "none" ELSE "Error"]

\* What a stage hands back: its return value ("True", "False", or "raised"
\* when an exception leaves the function), the exception raised inside it,
\* the lines it printed and the filesystem it leaves.
StageResult(stage, ret, exc, msgs, f) ==
    [stage |-> stage, ret |-> ret, exc |-> exc, msgs |-> msgs, fs |-> f]

Msg(kind, stage, cause) == [kind |-> kind, stage |-> stage, cause |-> cause]

\* copy_docs(), variant that tests for the destination before creating it.
copy_docs_exists_first(f) ==
    LET line43 == <<Msg("info", "copy_docs", "none")>>
        fail(g, e) == StageResult("copy_docs", "False", e,
                                  Append(line43, Msg("error", "copy_docs", e)), g)
        existed == exists(f)
        m == makedirs(f)
        r == IF existed THEN rmtree(m.fs) ELSE [fs |-> m.fs, exc |-> "none"]
        c == copytree(r.fs)
    IN  IF m.exc # "none" THEN fail(m.fs, m.exc)
        ELSE IF r.exc # "none" THEN fail(r.fs, r.exc)
        ELSE IF c.exc # "none" THEN fail(c.fs, c.exc)
        ELSE StageResult("copy_docs", "True", "none",
                         Append(line43, Msg("ok", "copy_docs", "none")), c.fs)

\* copy_docs(), variant that copies over the old destination
\* (copytree with dirs_exist_ok, no rmtree).
copy_docs_merge(f) ==
    LET line43 == <<Msg("info", "copy_docs", "none")>>
        fail(g, e) == StageResult("copy_docs", "False", e,
                                  Append(line43, Msg("error", "copy_docs", e)), g)
        m == makedirs(f)
        old == m.fs.dest.tree
        c == copytree([m.fs EXCEPT !.dest = [kind |-> "absent", tree |-> EmptyTree]])
        new == c.fs.dest.tree
        merged == [c.fs EXCEPT !.dest =
                     [kind |-> "dir",
                      tree |-> [n \in DOMAIN old \cup DOMAIN new |->
                                  IF n \in DOMAIN new THEN new[n] ELSE old[n]]]]
    IN  IF m.exc # "none" THEN fail(m.fs, m.exc)
        ELSE IF c.exc \in {"FileNotFoundError", "PermissionError"}
             THEN fail(m.fs, c.exc)
        ELSE IF c.exc # "none" THEN fail(merged, c.exc)
        ELSE StageResult("copy_docs", "True", "none",
                         Append(line43, Msg("ok", "copy_docs", "none")), merged)

\* copy_docs(), variant without the makedirs / exists guard in front of rmtree.
copy_docs_no_makedirs(f) ==
    LET line43 == <<Msg("info", "copy_docs", "none")>>
        fail(g, e) == StageResult("copy_docs", "False", e,
                                  Append(line43, Msg("error", "copy_docs", e)), g)
        r == rmtree(f)
        c == copytree(r.fs)
    IN  IF r.exc # "none" THEN fail(r.fs, r.exc)
        ELSE IF c.exc # "none" THEN fail(c.fs, c.exc)
        ELSE StageResult("copy_docs", "True", "none",
                         Append(line43, Msg("ok", "copy_docs", "none")), c.fs)

\* copy_docs(): makedirs, rmtree if the destination exists, copytree; every
\* Exception is caught, reported and turned into False.
copy_docs(f) ==
    LET line43 == <<Msg("info", "copy_docs", "none")>>
        fail(g, e) == StageResult("copy_docs", "False", e,
                                  Append(line43, Msg("error", "copy_docs", e)), g)
        m == makedirs(f)
        r == IF exists(m.fs) THEN rmtree(m.fs) ELSE [fs |-> m.fs, exc |-> "none"]
        c == copytree(r.fs)
    IN  IF m.exc # "none" THEN fail(m.fs, m.exc)
        ELSE IF r.exc # "none" THEN fail(r.fs, r.exc)
        ELSE IF c.exc # "none" THEN fail(c.fs, c.exc)
        ELSE StageResult("copy_docs", "True", "none",
                         Append(line43, Msg("ok", "copy_docs", "none")), c.fs)

----------------------------------------------------------------------------
\* External processes.  The outcome of a child process is an input:
\* "exit0" (it ran and exited 0), "nonzero" (it ran and exited non-zero) or
\* "missing" (the executable could not be started).
ProcOutcomes == {"exit0", "nonzero", "missing"}

\* subprocess.run(cmd, check=True): the exception it raises.
subprocess_run(outcome) ==
    CASE outcome = "exit0" -> "none"
      [] outcome = "nonzero" -> "CalledProcessError"
      [] outcome = "missing" -> "FileNotFoundError"

\* run_schema_generator(): only CalledProcessError is caught.
run_schema_generator(outcome, f) ==
    LET line63 == <<Msg("info", "run_schema_generator", "none")>>
        exc == subprocess_run(outcome)
    IN  IF exc = "none"
        THEN StageResult("run_schema_generator", "True", exc,
                 Append(line63, Msg("ok", "run_schema_generator", "none")), f)
        ELSE IF exc = "CalledProcessError"
        THEN StageResult("run_schema_generator", "False", exc,
                 Append(line63, Msg("error", "run_schema_generator", exc)), f)
        ELSE StageResult("run_schema_generator", "raised", exc, line63, f)

\* run_phpdoc(): the container writes the 'docs' folder (written: what it
\* left there) whenever it was started; only CalledProcessError is caught.
run_phpdoc(outcome, written, f) ==
    LET exc == subprocess_run(outcome)
        g == IF outcome = "missing" THEN f ELSE [f EXCEPT !.src = written]
    IN  IF exc = "none"
        THEN StageResult("run_phpdoc", "True", exc,
                 <<Msg("ok", "run_phpdoc", "none")>>, g)
        ELSE IF exc = "CalledProcessError"
        THEN StageResult("run_phpdoc", "False", exc,
                 <<Msg("error", "run_phpdoc", exc)>>, g)
        ELSE StageResult("run_phpdoc", "raised", exc, <<>>, g)

----------------------------------------------------------------------------
\* __main__: where control goes after stage i handed back ret.

\* Variant without any else branch: a failed stage does not stop the run.
after_stage_no_halt(i, ret) ==
    IF i < Len(Stages) THEN Stages[i + 1] ELSE "report"

\* Variant that swallows an exception leaving a stage.
after_stage_swallow(i, ret) ==
    IF ret = "False" THEN "FAILED"
    ELSE IF i < Len(Stages) THEN Stages[i + 1] ELSE "report"

\* Variant that runs a failed stage again.
after_stage_retry(i, ret) ==
    IF ret = "True"
    THEN IF i < Len(Stages) THEN Stages[i + 1] ELSE "report"
    ELSE IF ret = "False" THEN Stages[i] ELSE "FAILED"

\* Variant whose innermost if has no else: a failed copy falls through.
after_stage_copy_falls_through(i, ret) ==
    IF ret = "True" \/ (i = Len(Stages) /\ ret = "False")
    THEN IF i < Len(Stages) THEN Stages[i + 1] ELSE "report"
    ELSE "FAILED"

\* Variant whose outermost if has no else: a failed schema generation
\* falls through to the next stage.
after_stage_schema_falls_through(i, ret) ==
    IF ret = "True" \/ (i = 1 /\ ret = "False")
    THEN IF i < Len(Stages) THEN Stages[i + 1] ELSE "report"
    ELSE "FAILED"

\* The nested ifs: the next stage on True, exit(1) on False; an exception
\* that leaves the stage ends the process as well.
after_stage(i, ret) ==
    IF ret = "True"
    THEN IF i < Len(Stages) THEN Stages[i + 1] ELSE "report"
    ELSE "FAILED"

\* Variant that calls exit() without a status after a failed run_phpdoc.
exit_status_bare_exit(i, ret) ==
    IF ret = "True" THEN <<>>
    ELSE IF i = 2 /\ ret = "False" THEN <<0>> ELSE <<1>>

\* The exit status set after stage i handed back ret: none while the run
\* goes on, 1 from exit(1), 1 from the interpreter on an uncaught exception.
exit_status(i, ret) ==
    IF ret = "True" THEN <<>> ELSE <<1>>

\* What the interpreter prints when an exception leaves the stage.
traceback(r) ==
    IF r.ret = "raised" THEN <<Msg("traceback", "__main__", r.exc)>> ELSE <<>>

\* The bookkeeping common to the three calls of __main__.
Call(i, r) ==
    /\ pc = Stages[i]
    /\ invoked' = Append(invoked, Stages[i])
    /\ results' = Append(results, [stage |-> r.stage, ret |-> r.ret, exc |-> r.exc])
    /\ out' = out \o r.msgs \o traceback(r)
    /\ fs' = r.fs
    /\ pc' = after_stage(i, r.ret)
    /\ exitCode' = exit_status(i, r.ret)
    /\ UNCHANGED <<fs0, calls>>

Init ==
    /\ pc = "PENDING"
    /\ invoked = <<>>
    /\ results = <<>>
    /\ out = <<>>
    /\ exitCode = <<>>
    /\ fs \in FsStates
    /\ fs0 = [dest |-> fs.dest, parent |-> fs.parent]
    /\ calls = <<>>

\* lines 76-77: the banner.
Main ==
    /\ pc = "PENDING"
    /\ pc' = Stages[1]
    /\ out' = Append(out, Msg("info", "__main__", "none"))
    /\ UNCHANGED <<invoked, results, exitCode, fs, fs0, calls>>

\* line 79 with its else, line 91.
CallRunSchemaGenerator ==
    \E o \in ProcOutcomes : Call(1, run_schema_generator(o, fs))

\* line 80 with its else, line 89.
CallRunPhpdoc ==
    \E o \in ProcOutcomes, w \in SrcStates :
        Call(2, run_phpdoc(o, w, fs))

\* line 81 with its else, line 87.
CallCopyDocs ==
    Call(3, copy_docs(fs))

\* lines 82-85, then the end of the script: exit status 0.
BuildCompleted ==
    /\ pc = "report"
    /\ pc' = "SUCCESS"
    /\ out' = Append(out, Msg("completed", "__main__", "none"))
    /\ exitCode' = <<0>>
    /\ UNCHANGED <<invoked, results, fs, fs0, calls>>

Next ==
    \/ Main
    \/ CallRunSchemaGenerator
    \/ CallRunPhpdoc
    \/ CallCopyDocs
    \/ BuildCompleted

Spec == Init /\ [][Next]_vars

\* Every call made returns: the run is not stopped from outside.
FairSpec == Spec /\ WF_vars(Next)

----------------------------------------------------------------------------
\* copy_docs on its own, called up to MaxCalls times in a row on the
\* filesystem the previous call left, the source untouched in between.
CopyInit ==
    /\ pc = "copy_docs"
    /\ invoked = <<>>
    /\ results = <<>>
    /\ out = <<>>
    /\ exitCode = <<>>
    /\ fs \in FsStates
    /\ fs0 = [dest |-> fs.dest, parent |-> fs.parent]
    /\ calls = <<>>

CopyCall ==
    /\ Len(calls) < MaxCalls
    /\ LET r == copy_docs(fs)
       IN  /\ calls' = Append(calls, [pre |-> fs, ret |-> r.ret,
                                       exc |-> r.exc, post |-> r.fs])
           /\ fs' = r.fs
           /\ out' = out \o r.msgs
    /\ UNCHANGED <<pc, invoked, results, exitCode, fs0>>

CopyNext == CopyCall

CopySpec == CopyInit /\ [][CopyNext]_vars

----------------------------------------------------------------------------
Range(q) == {q[i] : i \in DOMAIN q}

Failed(i) == results[i].ret # "True"

Completed == Msg("completed", "__main__", "none")

\* C1: if stage i is the first stage that fails, exactly the stages 1..i
\* were invoked and none of the stages i+1..n is invoked, in every state of
\* the run from then on.
C1_FailFast ==
    \A i \in DOMAIN results :
        (Failed(i) /\ \A j \in 1..(i - 1) : ~Failed(j))
            => invoked = SubSeq(Stages, 1, i)

C1_Witness ==
    /\ pc = "FAILED"
    /\ Len(results) = 2
    /\ Failed(2)
    /\ invoked = <<"run_schema_generator", "run_phpdoc">>

\* C2: the exit status is 0 if and only if all three stages succeeded, and
\* it is 1 as soon as any stage has failed, whichever stage it is.
C2_ExitStatus ==
    /\ (exitCode = <<0>> =>
            Len(results) = Len(Stages) /\ \A i \in DOMAIN results : ~Failed(i))
    /\ ((pc = "SUCCESS") => exitCode = <<0>>)
    /\ ((\E i \in DOMAIN results : Failed(i)) => exitCode = <<1>>)
    /\ (pc \in {"SUCCESS", "FAILED"} <=> exitCode # <<>>)

C2_Witness ==
    /\ pc = "SUCCESS"
    /\ exitCode = <<0>>
    /\ Len(results) = Len(Stages)

\* C3: any fault raised inside a stage, of whatever kind, is caught at that
\* stage's boundary, reported with a message naming the stage and the cause,
\* and turned into the return value False; none leaves the stage uncaught.
C3_AllFaultsCaught ==
    \A i \in DOMAIN results :
        results[i].exc # "none" =>
            /\ results[i].ret = "False"
            /\ Msg("error", results[i].stage, results[i].exc) \in Range(out)

\* What follows stage i, as far as halting goes: the stages invoked after
\* it, the state of the run and the exit status.
HaltOutcome(i) ==
    [after |-> SubSeq(invoked, i + 1, Len(invoked)), pc |-> pc, exit |-> exitCode]

\* C4: a stage that raises is treated like one that returns False: in both
\* cases no stage is invoked after it and the run is a failure with the same
\* exit status.
C4_RaiseLikeFalse ==
    \A i \in DOMAIN results :
        results[i].ret \in {"False", "raised"} =>
            HaltOutcome(i) = [after |-> <<>>, pc |-> "FAILED", exit |-> <<1>>]

C4_Witness ==
    /\ pc = "FAILED"
    /\ \E i \in DOMAIN results : results[i].ret = "raised"

\* C5: copy_docs is idempotent: a second call in a row with the same source
\* leaves the destination the first call left, and succeeds if the first did.
C5_Idempotent ==
    \A k \in 2..Len(calls) :
        /\ calls[k].pre.src = calls[k - 1].pre.src
        /\ calls[k].post.dest = calls[k - 1].post.dest
        /\ (calls[k - 1].ret = "True" => calls[k].ret = "True")

C5_Witness ==
    /\ Len(calls) >= 2
    /\ calls[1].ret = "True"
    /\ calls[1].pre.dest # calls[1].post.dest
    /\ calls[2].post.dest.tree # EmptyTree

C7_OrderedPrefix ==
    /\ Len(invoked) <= Len(Stages)
    /\ invoked = SubSeq(Stages, 1, Len(invoked))
    /\ Len(results) = Len(invoked)
    /\ \A i \in DOMAIN invoked : \A j \in 1..(i - 1) : ~Failed(j)

C7_Witness ==
    /\ invoked = Stages
    /\ pc = "SUCCESS"

\* C8: every run whose calls return ends in SUCCESS or FAILED; a terminal
\* state is never left, and once a stage has failed the run is FAILED: it
\* never reaches SUCCESS and never prints the build-completed message.
C8_Terminal ==
    /\ <>(pc \in {"SUCCESS", "FAILED"})
    /\ [][(pc \in {"SUCCESS", "FAILED"}) => (pc' = pc)]_vars
    /\ []((\E i \in DOMAIN results : Failed(i)) =>
              pc = "FAILED" /\ Completed \notin Range(out))

C8_Witness ==
    /\ pc = "FAILED"
    /\ Len(results) = 1
    /\ Failed(1)

\* C9: only copy_docs modifies the destination: while copy_docs has not
\* been invoked, and in every run where run_schema_generator or run_phpdoc
\* failed, the destination and its parent are as they were before the run.
C9_DestinationFrame ==
    LET untouched == fs.dest = fs0.dest /\ fs.parent = fs0.parent
    IN  /\ ("copy_docs" \notin Range(invoked) => untouched)
        /\ ((\E i \in DOMAIN results :
                 results[i].stage # "copy_docs" /\ Failed(i)) => untouched)

C9_Witness ==
    /\ Len(results) = 2
    /\ results[2].ret = "False"
    /\ results[2].exc = "CalledProcessError"
    /\ fs.src.kind = "dir"
    /\ fs.src.tree # EmptyTree
    /\ fs0.dest.kind = "dir"
    /\ fs0.dest.tree # EmptyTree
    /\ fs.dest = fs0.dest

\* C10: whenever copy_docs returns True the destination holds exactly the
\* files of the source, whatever it held before: makedirs leaves a
\* destination that exists, so the old one is removed first.
C10_ExactCopy ==
    \A k \in DOMAIN calls :
        /\ (makedirs(calls[k].pre).exc = "none" => exists(makedirs(calls[k].pre).fs))
        /\ (calls[k].ret = "True" =>
                calls[k].post.dest = [kind |-> "dir", tree |-> calls[k].pre.src.tree])

C10_Witness ==
    \E k \in DOMAIN calls :
        /\ calls[k].ret = "True"
        /\ calls[k].pre.dest.kind = "dir"
        /\ ~(DOMAIN calls[k].pre.dest.tree \subseteq DOMAIN calls[k].pre.src.tree)
        /\ calls[k].post.dest.tree = calls[k].pre.src.tree

====
